---- MODULE Spec2Model ----
(***************************************************************************)
(* A model of tralloc.c, a boundary-tag allocator whose free chunks are    *)
(* kept in an intrusive binary search tree keyed by chunk size.            *)
(*                                                                         *)
(* Memory is modelled by three maps keyed by byte address:                 *)
(*   hdr : header address -> [size, in_use]                                *)
(*   ftr : footer address -> footer.size                                   *)
(*   nd  : node address   -> [parent, left, right]                         *)
(* Only bytes that the allocator owns as metadata are in the maps.  Bytes  *)
(* that become part of a payload (an absorbed header or footer, the node   *)
(* fields of a chunk handed to the caller) leave the maps, so a read of    *)
(* such a byte by the allocator is an evaluation error, not a silent value.*)
(***************************************************************************)
EXTENDS Integers, Sequences, FiniteSets, TLC

\* ------------------------------------------------------------------ bounds
\* Width of size_t in the model (the arithmetic of ceil_size wraps at 2^SizeBits).
SizeBits == 12
\* The most words sbrk hands out for chunks before the model stops growing.
MaxHeapWords == 30

SizeMod == 2 ^ SizeBits

\* --------------------------------------------------------- ABI constants
NULL == 0
SizeofIntptr == 8
SizeofHeader == 16
SizeofNode == 24
SizeofFooter == 8
\* The program break before the first sbrk call.
HeapStart == 1024

MaxHeap == MaxHeapWords * SizeofIntptr

VARIABLES
    fake_root, first_chunk, guard_addr,
    header_pad, footer_pad, node_pad,
    equals_alternator, succ_pred_alternator,
    brk,        \* the program break, moved by sbrk
    hdr, ftr, nd,
    live,       \* payload addresses returned by tralloc and not yet released
    call1, call2, call3   \* the three most recent calls; call1 is the newest

vars == << fake_root, first_chunk, guard_addr, header_pad, footer_pad, node_pad,
           equals_alternator, succ_pred_alternator, brk, hdr, ftr, nd, live,
           call1, call2, call3 >>

\* ------------------------------------------------------ address arithmetic
ceil_size(input, offset) ==
    IF input % offset # 0
    THEN (input - (input % offset) + offset) % SizeMod
    ELSE input

header_to_node(input, hp) == input + hp
header_to_footer(m, input, hp) == input + hp + m.hdr[input].size
node_to_header(input, hp) == input - hp
footer_to_header(m, input, hp) == input - m.ftr[input] - hp

\* A write through a pointer: the cell is created if the map has none there.
Store(f, a, v) == (a :> v) @@ f
\* Bytes at address a stop being allocator metadata.
Forget(f, a) == [x \in (DOMAIN f) \ {a} |-> f[x]]

\* ------------------------------------------------------------ the free tree
\* The operators below work on a memory record
\*   m = [hdr, ftr, nd, ea (equals_alternator), spa (succ_pred_alternator)].
\* A sequence of statements is written as a chain of local operators, each
\* taking the memory its predecessor left.

RECURSIVE find_largest(_, _, _)
find_largest(m, hp, tree) ==
    LET tree_node == header_to_node(tree, hp)
    IN  IF m.nd[tree_node].right = NULL THEN tree
        ELSE find_largest(m, hp, m.nd[tree_node].right)

RECURSIVE find_smallest(_, _, _)
find_smallest(m, hp, tree) ==
    LET tree_node == header_to_node(tree, hp)
    IN  IF m.nd[tree_node].left = NULL THEN tree
        ELSE find_smallest(m, hp, m.nd[tree_node].left)

\* find_replacement choosing by the flag without flipping it.
find_replacement_noflip(m, hp, tree) ==
    LET tree_node == header_to_node(tree, hp)
    IN  IF m.spa
        THEN [m |-> m, ret |-> find_largest(m, hp, m.nd[tree_node].left)]
        ELSE [m |-> m, ret |-> find_smallest(m, hp, m.nd[tree_node].right)]

\* Returns [m, ret]: the flag is flipped before the choice is made.
find_replacement(m, hp, tree) ==
    LET tree_node == header_to_node(tree, hp)
        Pick(m1) ==
            IF m1.spa
            THEN [m |-> m1, ret |-> find_largest(m1, hp, m1.nd[tree_node].left)]
            ELSE [m |-> m1, ret |-> find_smallest(m1, hp, m1.nd[tree_node].right)]
    IN  Pick([m EXCEPT !.spa = ~m.spa])

\* ParentsChildMember without the test of which child to_remove is.
ParentsChildMember_right(m, hp, to_remove) == "right"

\* The child slot of the parent that is rewritten by a removal.
ParentsChildMember(m, hp, to_remove) ==
    LET to_remove_node == header_to_node(to_remove, hp)
        parent_node == header_to_node(m.nd[to_remove_node].parent, hp)
    IN  IF m.nd[parent_node].left = to_remove THEN "left" ELSE "right"

SetChild(ndm, node_addr, slot, v) ==
    IF slot = "left" THEN [ndm EXCEPT ![node_addr].left = v]
    ELSE [ndm EXCEPT ![node_addr].right = v]

SetParent(ndm, node_addr, v) == [ndm EXCEPT ![node_addr].parent = v]

\* Lines 207-214: the replacement, already removed from its own place, takes
\* the fields of to_remove_node, the slot of the parent and both subtrees.
take_place(ndm, hp, to_remove_node, parent_node, slot, replacement) ==
    LET replacement_node == header_to_node(replacement, hp)
        OwnLeft(n) ==
            IF n[to_remove_node].left # NULL
            THEN SetParent(n, header_to_node(n[to_remove_node].left, hp), replacement)
            ELSE n
        OwnRight(n) ==
            OwnLeft(IF n[to_remove_node].right # NULL
                    THEN SetParent(n, header_to_node(n[to_remove_node].right, hp),
                                   replacement)
                    ELSE n)
        Link(n) == OwnRight(SetChild(n, parent_node, slot, replacement))
    IN  Link([ndm EXCEPT ![replacement_node] =
                 [parent |-> ndm[to_remove_node].parent,
                  left |-> ndm[to_remove_node].left,
                  right |-> ndm[to_remove_node].right]])

\* Lines 216-217 and 221-222: the only child takes the slot of the parent.
splice_child(ndm, hp, to_remove_node, parent_node, slot, side) ==
    LET Child(n) == IF side = "left" THEN n[to_remove_node].left
                    ELSE n[to_remove_node].right
        Reparent(n) == SetParent(n, header_to_node(Child(n), hp), n[to_remove_node].parent)
    IN  Reparent(SetChild(ndm, parent_node, slot, Child(ndm)))

RECURSIVE remove_chunk(_, _, _)
remove_chunk(m, hp, to_remove) ==
    LET to_remove_node == header_to_node(to_remove, hp)
        parent_node == header_to_node(m.nd[to_remove_node].parent, hp)
        slot == ParentsChildMember(m, hp, to_remove)
        Replace(m1, replacement) ==
            [m1 EXCEPT !.nd = take_place(m1.nd, hp, to_remove_node, parent_node, slot,
                                         replacement)]
        WithReplacement(fr) == Replace(remove_chunk(fr.m, hp, fr.ret), fr.ret)
    IN  IF m.nd[to_remove_node].left # NULL
        THEN IF m.nd[to_remove_node].right # NULL
             THEN WithReplacement(find_replacement(m, hp, to_remove))
             ELSE [m EXCEPT !.nd = splice_child(m.nd, hp, to_remove_node, parent_node,
                                                slot, "left")]
        ELSE IF m.nd[to_remove_node].right # NULL
             THEN [m EXCEPT !.nd = splice_child(m.nd, hp, to_remove_node, parent_node,
                                                slot, "right")]
             ELSE [m EXCEPT !.nd = SetChild(m.nd, parent_node, slot, NULL)]

RECURSIVE remove_chunk_by_size(_, _, _, _)

\* remove_chunk_by_size descending to the left child of a node that is too small.
remove_chunk_by_size_left(m, hp, tree, size) ==
    IF tree = NULL THEN [m |-> m, ret |-> NULL]
    ELSE LET tree_node == header_to_node(tree, hp)
         IN  IF m.hdr[tree].size < size
             THEN remove_chunk_by_size(m, hp, m.nd[tree_node].left, size)
             ELSE [m |-> remove_chunk(m, hp, tree), ret |-> tree]

\* remove_chunk_by_size looking for a smaller fit in the left subtree.
remove_chunk_by_size_best(m, hp, tree, size) ==
    IF tree = NULL THEN [m |-> m, ret |-> NULL]
    ELSE LET tree_node == header_to_node(tree, hp)
         IN  IF m.hdr[tree].size < size
             THEN remove_chunk_by_size(m, hp, m.nd[tree_node].right, size)
             ELSE IF m.nd[tree_node].left # NULL
                     /\ m.hdr[m.nd[tree_node].left].size >= size
             THEN remove_chunk_by_size(m, hp, m.nd[tree_node].left, size)
             ELSE [m |-> remove_chunk(m, hp, tree), ret |-> tree]

\* Returns [m, ret]; ret = NULL when no node on the path is large enough.
remove_chunk_by_size(m, hp, tree, size) ==
    IF tree = NULL THEN [m |-> m, ret |-> NULL]
    ELSE LET tree_node == header_to_node(tree, hp)
         IN  IF m.hdr[tree].size < size
             THEN remove_chunk_by_size(m, hp, m.nd[tree_node].right, size)
             ELSE [m |-> remove_chunk(m, hp, tree), ret |-> tree]

\* Lines 166-171: to_add becomes a leaf under parent_chunk.
add_leaf(m, hp, to_add, parent_chunk) ==
    [m EXCEPT !.hdr[to_add].in_use = FALSE,
              !.nd = Store(m.nd, header_to_node(to_add, hp),
                           [parent |-> parent_chunk, left |-> NULL, right |-> NULL])]

\* tree_node->left = ... or tree_node->right = ... with the result of the
\* recursive call, then return tree.
set_subtree(sub, tree, tree_node, side) ==
    [m |-> [sub.m EXCEPT !.nd = SetChild(sub.m.nd, tree_node, side, sub.ret)],
     ret |-> tree]

\* Line 180.
flip_equals(r) == [r EXCEPT !.m.ea = ~r.m.ea]

RECURSIVE add_chunk(_, _, _, _, _)

\* add_chunk returning the added chunk where it should return the subtree root.
add_chunk_returns_added(m, hp, tree, to_add, parent_chunk) ==
    LET tree_node == header_to_node(tree, hp)
    IN  IF tree = NULL
        THEN [m |-> add_leaf(m, hp, to_add, parent_chunk), ret |-> to_add]
        ELSE IF m.hdr[to_add].size < m.hdr[tree].size
        THEN set_subtree(add_chunk(m, hp, m.nd[tree_node].left, to_add, tree),
                         to_add, tree_node, "left")
        ELSE IF m.hdr[to_add].size > m.hdr[tree].size
        THEN set_subtree(add_chunk(m, hp, m.nd[tree_node].right, to_add, tree),
                         to_add, tree_node, "right")
        ELSE IF m.ea
        THEN flip_equals(set_subtree(add_chunk(m, hp, m.nd[tree_node].left, to_add, tree),
                                     to_add, tree_node, "left"))
        ELSE flip_equals(set_subtree(add_chunk(m, hp, m.nd[tree_node].right, to_add, tree),
                                     to_add, tree_node, "right"))

\* Returns [m, ret]; ret is the root of the subtree after the insertion.
add_chunk(m, hp, tree, to_add, parent_chunk) ==
    LET tree_node == header_to_node(tree, hp)
    IN  IF tree = NULL
        THEN [m |-> add_leaf(m, hp, to_add, parent_chunk), ret |-> to_add]
        ELSE IF m.hdr[to_add].size < m.hdr[tree].size
        THEN set_subtree(add_chunk(m, hp, m.nd[tree_node].left, to_add, tree),
                         tree, tree_node, "left")
        ELSE IF m.hdr[to_add].size > m.hdr[tree].size
        THEN set_subtree(add_chunk(m, hp, m.nd[tree_node].right, to_add, tree),
                         tree, tree_node, "right")
        ELSE IF m.ea
        THEN flip_equals(set_subtree(add_chunk(m, hp, m.nd[tree_node].left, to_add, tree),
                                     tree, tree_node, "left"))
        ELSE flip_equals(set_subtree(add_chunk(m, hp, m.nd[tree_node].right, to_add, tree),
                                     tree, tree_node, "right"))

\* ------------------------------------------------------------------ sbrk
\* sbrk(increment) returns the old break and moves the break up.
sbrk(b, increment) == [ret |-> b, brk |-> b + increment]

\* ---------------------------------------------------------------- tralloc
\* Lines 106-108: the request rounded up to a word, at least a node.
target_size(n, np) ==
    IF ceil_size(n, SizeofIntptr) < np THEN np ELSE ceil_size(n, SizeofIntptr)

\* has_dividend asking for room for the dividend's tags only.
has_dividend_tags_only(fsize, size, hp, fp, np) == fsize >= (size + fp + hp) % SizeMod

\* has_dividend with a strict comparison.
has_dividend_strict(fsize, size, hp, fp, np) == fsize > (size + fp + hp + np) % SizeMod

\* Line 119: the found chunk is large enough to be divided.
has_dividend(fsize, size, hp, fp, np) == fsize >= (size + fp + hp + np) % SizeMod

\* header->size = size; header_to_footer(header)->size = size.
set_size(m, h, size, hp) ==
    LET WriteFooter(m1) ==
            [m1 EXCEPT !.ftr = Store(m1.ftr, header_to_footer(m1, h, hp), size)]
    IN  WriteFooter([m EXCEPT !.hdr[h].size = size])

\* Lines 96-104: the sentinel is created by the first call.
init_fake_root(m, b, hp, np) ==
    [m |-> [m EXCEPT !.hdr = Store(m.hdr, sbrk(b, hp + np).ret,
                                   [size |-> 0, in_use |-> FALSE]),
                     !.nd = Store(m.nd, header_to_node(sbrk(b, hp + np).ret, hp),
                                  [parent |-> NULL, left |-> NULL, right |-> NULL])],
     fake_root |-> sbrk(b, hp + np).ret,
     brk |-> sbrk(b, hp + np).brk]

\* tralloc_grow leaving the footer's bytes out of guard_addr.
tralloc_grow_short_guard(m, b, fc, size, hp, fp) ==
    LET found == sbrk(b, (hp + size + fp) % SizeMod).ret
    IN  [m |-> set_size([m EXCEPT !.hdr = Store(m.hdr, found,
                                               [size |-> 0, in_use |-> FALSE])],
                        found, size, hp),
         found |-> found,
         brk |-> sbrk(b, (hp + size + fp) % SizeMod).brk,
         first_chunk |-> IF fc = NULL THEN found ELSE fc,
         guard_addr |-> found + hp + size]

\* tralloc_grow setting first_chunk at every growth.
tralloc_grow_resets_first(m, b, fc, size, hp, fp) ==
    LET found == sbrk(b, (hp + size + fp) % SizeMod).ret
    IN  [m |-> set_size([m EXCEPT !.hdr = Store(m.hdr, found,
                                               [size |-> 0, in_use |-> FALSE])],
                        found, size, hp),
         found |-> found,
         brk |-> sbrk(b, (hp + size + fp) % SizeMod).brk,
         first_chunk |-> found,
         guard_addr |-> found + hp + size + fp]

\* Lines 113-118: no chunk was found, the heap grows by one chunk.  The new
\* bytes are zero, so in_use reads false until line 130.
tralloc_grow(m, b, fc, size, hp, fp) ==
    LET found == sbrk(b, (hp + size + fp) % SizeMod).ret
    IN  [m |-> set_size([m EXCEPT !.hdr = Store(m.hdr, found,
                                               [size |-> 0, in_use |-> FALSE])],
                        found, size, hp),
         found |-> found,
         brk |-> sbrk(b, (hp + size + fp) % SizeMod).brk,
         first_chunk |-> IF fc = NULL THEN found ELSE fc,
         guard_addr |-> found + hp + size + fp]

\* tralloc_split giving the dividend the bytes of its own header as payload.
tralloc_split_bad(m, root, found, size, hp, fp) ==
    LET dividend == found + hp + size + fp
        dsize == m.hdr[found].size - size - fp
        Shrink(a) == [m |-> set_size(a.m, found, size, hp), fake_root |-> a.ret]
        Insert(m1) == Shrink(add_chunk(m1, hp, root, dividend, NULL))
    IN  Insert(set_size([m EXCEPT !.hdr = Store(m.hdr, dividend,
                                               [size |-> dsize, in_use |-> FALSE])],
                        dividend, dsize, hp))

\* Lines 120-128: the found chunk is divided; the dividend goes back to the tree.
tralloc_split(m, root, found, size, hp, fp) ==
    LET dividend == found + hp + size + fp
        dsize == m.hdr[found].size - size - fp - hp
        Shrink(a) == [m |-> set_size(a.m, found, size, hp), fake_root |-> a.ret]
        Insert(m1) == Shrink(add_chunk(m1, hp, root, dividend, NULL))
    IN  Insert(set_size([m EXCEPT !.hdr = Store(m.hdr, dividend,
                                               [size |-> dsize, in_use |-> FALSE])],
                        dividend, dsize, hp))

\* Lines 111-129: what tralloc does with the result rs of the search, from
\* the state i left by the initialisation.
tralloc_branch(i, rs, size, hp, fp, np) ==
    LET Grown(g) ==
            [m |-> g.m, fake_root |-> i.fake_root, brk |-> g.brk,
             first_chunk |-> g.first_chunk, guard_addr |-> g.guard_addr,
             chunk |-> g.found, found |-> NULL, fsize |-> 0, split |-> FALSE]
        Divided(d) ==
            [m |-> d.m, fake_root |-> d.fake_root, brk |-> i.brk,
             first_chunk |-> first_chunk, guard_addr |-> guard_addr,
             chunk |-> rs.ret, found |-> rs.ret, fsize |-> rs.m.hdr[rs.ret].size,
             split |-> TRUE]
    IN  IF rs.ret = NULL
        THEN Grown(tralloc_grow(rs.m, i.brk, first_chunk, size, hp, fp))
        ELSE IF has_dividend(rs.m.hdr[rs.ret].size, size, hp, fp, np)
        THEN Divided(tralloc_split(rs.m, i.fake_root, rs.ret, size, hp, fp))
        ELSE [m |-> rs.m, fake_root |-> i.fake_root, brk |-> i.brk,
              first_chunk |-> first_chunk, guard_addr |-> guard_addr,
              chunk |-> rs.ret, found |-> rs.ret, fsize |-> rs.m.hdr[rs.ret].size,
              split |-> FALSE]

\* Line 130; the payload, node fields included, now belongs to the caller.
tralloc_mark(r, hp) ==
    [r EXCEPT !.m.hdr[r.chunk].in_use = TRUE,
              !.m.nd = Forget(r.m.nd, header_to_node(r.chunk, hp))]

\* The whole of tralloc(n), from the current state.
tralloc(n) ==
    LET hp == IF header_pad = 0 THEN ceil_size(SizeofHeader, SizeofIntptr) ELSE header_pad
        fp == IF footer_pad = 0 THEN ceil_size(SizeofFooter, SizeofIntptr) ELSE footer_pad
        np == IF node_pad = 0 THEN ceil_size(SizeofNode, SizeofIntptr) ELSE node_pad
        Return(r) ==
            [m |-> r.m, hp |-> hp, fp |-> fp, np |-> np, fake_root |-> r.fake_root,
             brk |-> r.brk, first_chunk |-> r.first_chunk, guard_addr |-> r.guard_addr,
             ret |-> header_to_node(r.chunk, hp),
             call |-> [op |-> "tralloc", n |-> n, size |-> target_size(n, np),
                       chunk |-> r.chunk, found |-> r.found, fsize |-> r.fsize,
                       split |-> r.split, mprev |-> FALSE, mnext |-> FALSE,
                       guard |-> r.guard_addr,
                       ea0 |-> equals_alternator, spa0 |-> succ_pred_alternator]]
        Search(i) ==
            Return(tralloc_mark(
                tralloc_branch(i, remove_chunk_by_size(i.m, hp, i.fake_root,
                                                       target_size(n, np)),
                               target_size(n, np), hp, fp, np),
                hp))
    IN  Search(IF fake_root = NULL
               THEN init_fake_root([hdr |-> hdr, ftr |-> ftr, nd |-> nd,
                                    ea |-> equals_alternator,
                                    spa |-> succ_pred_alternator], brk, hp, np)
               ELSE [m |-> [hdr |-> hdr, ftr |-> ftr, nd |-> nd,
                            ea |-> equals_alternator, spa |-> succ_pred_alternator],
                     fake_root |-> fake_root, brk |-> brk])

\* absorb_into_prev leaving concat_candidate in the tree.
absorb_into_prev_noremove(m, concat_candidate, to_free_chunk, hp, fp) ==
    LET Grow(m1) ==
            set_size(m1, concat_candidate,
                     (m1.hdr[concat_candidate].size + fp + hp
                          + m1.hdr[to_free_chunk].size) % SizeMod, hp)
        Drop(m2) == [m2 EXCEPT !.hdr = Forget(m2.hdr, to_free_chunk),
                               !.ftr = Forget(m2.ftr, to_free_chunk - fp)]
    IN  Drop(Grow(m))

\* ----------------------------------------------------------------- trfree
\* absorb_into_prev leaving the footer of the merged chunk as it was.
absorb_into_prev_nofooter(m, concat_candidate, to_free_chunk, hp, fp) ==
    LET Grow(m1) ==
            [m1 EXCEPT !.hdr[concat_candidate].size =
                (m1.hdr[concat_candidate].size + fp + hp
                     + m1.hdr[to_free_chunk].size) % SizeMod]
        Drop(m2) == [m2 EXCEPT !.hdr = Forget(m2.hdr, to_free_chunk),
                               !.ftr = Forget(m2.ftr, to_free_chunk - fp)]
    IN  Drop(Grow(remove_chunk(m, hp, concat_candidate)))

\* Lines 142-146: concat_candidate leaves the tree and absorbs to_free_chunk,
\* whose header and the footer before it are payload bytes from now on.
absorb_into_prev(m, concat_candidate, to_free_chunk, hp, fp) ==
    LET Grow(m1) ==
            set_size(m1, concat_candidate,
                     (m1.hdr[concat_candidate].size + fp + hp
                          + m1.hdr[to_free_chunk].size) % SizeMod, hp)
        Drop(m2) == [m2 EXCEPT !.hdr = Forget(m2.hdr, to_free_chunk),
                               !.ftr = Forget(m2.ftr, to_free_chunk - fp)]
    IN  Drop(Grow(remove_chunk(m, hp, concat_candidate)))

\* trfree_prev that never merges.
trfree_prev_nomerge(m, fc, to_free_chunk, hp, fp) ==
    [m |-> m, chunk |-> to_free_chunk, merged |-> FALSE]

\* Lines 137-148: the chunk before to_free_chunk, when it exists and is free,
\* absorbs to_free_chunk.  Returns [m, chunk, merged].
trfree_prev(m, fc, to_free_chunk, hp, fp) ==
    IF to_free_chunk # fc
    THEN IF ~m.hdr[footer_to_header(m, to_free_chunk - fp, hp)].in_use
         THEN [m |-> absorb_into_prev(m, footer_to_header(m, to_free_chunk - fp, hp),
                                      to_free_chunk, hp, fp),
               chunk |-> footer_to_header(m, to_free_chunk - fp, hp),
               merged |-> TRUE]
         ELSE [m |-> m, chunk |-> to_free_chunk, merged |-> FALSE]
    ELSE [m |-> m, chunk |-> to_free_chunk, merged |-> FALSE]

\* Lines 154-156: concat_candidate leaves the tree and is absorbed by
\* to_free_chunk; its header and node and the footer before it are payload
\* bytes from now on.
absorb_next(m, to_free_chunk, concat_candidate, hp, fp) ==
    LET Grow(m1) ==
            set_size(m1, to_free_chunk,
                     (m1.hdr[to_free_chunk].size + fp + hp
                          + m1.hdr[concat_candidate].size) % SizeMod, hp)
        Drop(m2) == [m2 EXCEPT !.hdr = Forget(m2.hdr, concat_candidate),
                               !.ftr = Forget(m2.ftr, concat_candidate - fp),
                               !.nd = Forget(m2.nd, header_to_node(concat_candidate, hp))]
    IN  Drop(Grow(remove_chunk(m, hp, concat_candidate)))

\* trfree_next that never merges.
trfree_next_nomerge(m, guard, to_free_chunk, hp, fp) == [m |-> m, merged |-> FALSE]

\* Lines 149-158: the chunk after to_free_chunk, when it exists and is free,
\* is absorbed by to_free_chunk.  Returns [m, merged].
trfree_next(m, guard, to_free_chunk, hp, fp) ==
    IF header_to_footer(m, to_free_chunk, hp) + fp # guard
    THEN IF ~m.hdr[header_to_footer(m, to_free_chunk, hp) + fp].in_use
         THEN [m |-> absorb_next(m, to_free_chunk,
                                 header_to_footer(m, to_free_chunk, hp) + fp, hp, fp),
               merged |-> TRUE]
         ELSE [m |-> m, merged |-> FALSE]
    ELSE [m |-> m, merged |-> FALSE]

\* The whole of trfree(to_free), from the current state.
trfree(to_free) ==
    LET chunk0 == node_to_header(to_free, header_pad)
        Return(a, b, c) ==
            [m |-> c.m, fake_root |-> c.ret,
             call |-> [op |-> "trfree", n |-> to_free, size |-> hdr[chunk0].size,
                       chunk |-> chunk0, found |-> a.chunk,
                       fsize |-> c.m.hdr[a.chunk].size, split |-> FALSE,
                       mprev |-> a.merged, mnext |-> b.merged, guard |-> guard_addr,
                       ea0 |-> equals_alternator, spa0 |-> succ_pred_alternator]]
        Insert(a, b) ==
            Return(a, b, add_chunk([b.m EXCEPT !.hdr[a.chunk].in_use = FALSE],
                                   header_pad, fake_root, a.chunk, NULL))
        Next1(a) == Insert(a, trfree_next(a.m, guard_addr, a.chunk, header_pad, footer_pad))
    IN  Next1(trfree_prev([hdr |-> hdr, ftr |-> ftr, nd |-> nd,
                           ea |-> equals_alternator, spa |-> succ_pred_alternator],
                          first_chunk, node_to_header(to_free, header_pad),
                          header_pad, footer_pad))

\* ------------------------------------------------------------ the machine
\* A call record: op, the argument n (a size or a pointer), and what the call
\* did: for tralloc the target size, the chunk returned, the chunk found by the
\* search (NULL when the heap grew), its size when found and whether it was
\* divided; for trfree the chunk released, its size, the chunk inserted into
\* the tree (found) with its size, and which neighbours were absorbed.  ea0 and
\* spa0 are the two alternators when the call began, guard is guard_addr when
\* it returned.
NoCall == [op |-> "none", n |-> 0, size |-> 0, chunk |-> NULL, found |-> NULL,
           fsize |-> 0, split |-> FALSE, mprev |-> FALSE, mnext |-> FALSE,
           guard |-> NULL, ea0 |-> FALSE, spa0 |-> FALSE]

\* Request sizes: one that is no word multiple and is below a node, a word
\* multiple, and the largest value of size_t, which ceil_size wraps around.
Requests == {1, 64, SizeMod - 1}

\* What is kept of a call once a later call has been made.
Brief(c) == [c EXCEPT !.found = NULL, !.fsize = 0, !.split = FALSE,
                       !.ea0 = FALSE, !.spa0 = FALSE]

\* Bytes of chunks between first_chunk and the break.
HeapBytes(b, fc) == IF fc = NULL THEN 0 ELSE b - fc

Init ==
    /\ fake_root = NULL
    /\ first_chunk = NULL
    /\ guard_addr = NULL
    /\ header_pad = 0
    /\ footer_pad = 0
    /\ node_pad = 0
    /\ equals_alternator = FALSE
    /\ succ_pred_alternator = FALSE
    /\ brk = HeapStart
    /\ hdr = << >>
    /\ ftr = << >>
    /\ nd = << >>
    /\ live = {}
    /\ call1 = NoCall
    /\ call2 = NoCall
    /\ call3 = NoCall

\* The state after a tralloc call that returned r.
TrallocDone(r) ==
    /\ HeapBytes(r.brk, r.first_chunk) <= MaxHeap
    /\ fake_root' = r.fake_root
    /\ first_chunk' = r.first_chunk
    /\ guard_addr' = r.guard_addr
    /\ header_pad' = r.hp
    /\ footer_pad' = r.fp
    /\ node_pad' = r.np
    /\ equals_alternator' = r.m.ea
    /\ succ_pred_alternator' = r.m.spa
    /\ brk' = r.brk
    /\ hdr' = r.m.hdr
    /\ ftr' = r.m.ftr
    /\ nd' = r.m.nd
    /\ live' = live \cup {r.ret}
    /\ call1' = r.call
    /\ call2' = Brief(call1)
    /\ call3' = call2

Tralloc == \E n \in Requests : TrallocDone(tralloc(n))

\* The state after a trfree(to_free) call that returned r.
TrfreeDone(to_free, r) ==
    /\ fake_root' = r.fake_root
    /\ equals_alternator' = r.m.ea
    /\ succ_pred_alternator' = r.m.spa
    /\ hdr' = r.m.hdr
    /\ ftr' = r.m.ftr
    /\ nd' = r.m.nd
    /\ live' = live \ {to_free}
    /\ call1' = r.call
    /\ call2' = Brief(call1)
    /\ call3' = call2
    /\ UNCHANGED << first_chunk, guard_addr, header_pad, footer_pad, node_pad, brk >>

Trfree == \E to_free \in live : TrfreeDone(to_free, trfree(to_free))

Next == Tralloc \/ Trfree

Spec == Init /\ [][Next]_vars

\* ------------------------------------------------- views used by the claims
\* The physical chain: header addresses from first_chunk up to guard_addr.
RECURSIVE ChainFrom(_, _)
ChainFrom(a, fuel) ==
    IF fuel = 0 \/ a = guard_addr \/ a \notin DOMAIN hdr \/ a > guard_addr THEN << >>
    ELSE << a >> \o ChainFrom(a + header_pad + hdr[a].size + footer_pad, fuel - 1)

Chain == IF first_chunk = NULL THEN << >>
         ELSE ChainFrom(first_chunk, Cardinality(DOMAIN hdr))

ChainSet == {Chain[i] : i \in 1..Len(Chain)}

\* Every header the allocator owns is the sentinel or a chunk of the chain, and
\* the chain ends exactly at guard_addr.
ChainCoversHeap ==
    /\ first_chunk # NULL =>
          /\ ChainSet = DOMAIN hdr \ {fake_root}
          /\ LET z == Chain[Len(Chain)]
             IN  z + header_pad + hdr[z].size + footer_pad = guard_addr
    /\ live = {header_to_node(h, header_pad) : h \in {c \in ChainSet : hdr[c].in_use}}

NodeOf(h) == header_to_node(h, header_pad)
HasNode(h) == h # NULL /\ NodeOf(h) \in DOMAIN nd /\ h \in DOMAIN hdr
Left(h) == nd[NodeOf(h)].left
Right(h) == nd[NodeOf(h)].right
Parent(h) == nd[NodeOf(h)].parent

\* The headers reachable from t through left and right fields.
RECURSIVE Subtree(_, _)
Subtree(t, fuel) ==
    IF fuel = 0 \/ ~HasNode(t) THEN {}
    ELSE {t} \cup Subtree(Left(t), fuel - 1) \cup Subtree(Right(t), fuel - 1)

Fuel == Cardinality(DOMAIN nd) + 1
TreeNodes == Subtree(fake_root, Fuel)
FreeNodes == TreeNodes \ {fake_root}

\* ---------------------------------------------------------------- claims

\* C1: no two physically adjacent chunks of the chain are both free.
NoAdjacentFree ==
    \A i \in 1..(Len(Chain) - 1) : hdr[Chain[i]].in_use \/ hdr[Chain[i + 1]].in_use

\* A release that met a free chunk on both sides.
NoAdjacentFreeWitness ==
    /\ call1.op = "trfree" /\ call1.mprev /\ call1.mnext
    /\ Len(Chain) >= 3

\* C2: on every chunk of the chain the footer holds the size the header holds.
TagConsistency ==
    \A h \in ChainSet :
        LET f == h + header_pad + hdr[h].size
        IN  f \in DOMAIN ftr /\ ftr[f] = hdr[h].size

\* The chain holds a chunk made by growth, one made by a split and one made by
\* coalescing.
TagConsistencyWitness ==
    /\ call1.op = "tralloc" /\ call1.split
    /\ call2.op = "trfree" /\ (call2.mprev \/ call2.mnext)
    /\ Len(Chain) >= 3

\* C3: the free tree is ordered by size (ties on either side) and every child's
\* parent field names the node that points to it.
BSTOrdering ==
    fake_root # NULL =>
        /\ HasNode(fake_root) /\ Parent(fake_root) = NULL
        /\ \A t \in TreeNodes :
              /\ \A x \in Subtree(Left(t), Fuel) : hdr[x].size <= hdr[t].size
              /\ \A x \in Subtree(Right(t), Fuel) : hdr[x].size >= hdr[t].size
              /\ Left(t) # NULL => HasNode(Left(t)) /\ Parent(Left(t)) = t
              /\ Right(t) # NULL => HasNode(Right(t)) /\ Parent(Right(t)) = t

\* A call that removed a node with two children using the successor, leaving a
\* tree that holds a size tie.
BSTOrderingWitness ==
    /\ call1.spa0 /\ ~succ_pred_alternator
    /\ \E t \in FreeNodes : \E x \in FreeNodes : x # t /\ hdr[x].size = hdr[t].size

\* C4: the chunk returned by tralloc(n) has a payload of at least n bytes.
PayloadAtLeastRequest ==
    (call1.op = "tralloc" /\ call1.chunk \in DOMAIN hdr) =>
        hdr[call1.chunk].size >= call1.n

\* C5 as stated: from any state, p1 = tralloc(64); trfree(p1); p2 = tralloc(64)
\* gives p2 = p1 and leaves guard_addr where the first call left it.
RoundTrip ==
    /\ call3.op = "tralloc" /\ call3.n = 64
    /\ call2.op = "trfree" /\ call2.n = header_to_node(call3.chunk, header_pad)
    /\ call1.op = "tralloc" /\ call1.n = 64

RoundTripReuse ==
    RoundTrip => call1.chunk = call3.chunk /\ call1.guard = call3.guard

\* The chunk the last tralloc put back into the tree, if it divided what it found.
Dividend1 ==
    IF call1.op = "tralloc" /\ call1.split
    THEN {call1.chunk + header_pad + call1.size + footer_pad}
    ELSE {}

\* Before the last tralloc the tree held one chunk only that could serve it.
NoOtherCandidate ==
    \A x \in FreeNodes \ Dividend1 : hdr[x].size < call1.size

\* C5 amended: the round trip never grows the heap at the second tralloc, and
\* p2 = p1 when the release did not merge the chunk into a free predecessor and
\* left it the only free chunk of size >= 64.
RoundTripReuseAmended ==
    RoundTrip =>
        /\ call1.guard = call3.guard
        /\ (~call2.mprev /\ NoOtherCandidate) => call1.chunk = call3.chunk

\* A round trip whose release merged the chunk with the dividend after it and
\* whose second tralloc divided the same chunk again.
RoundTripWitness ==
    /\ RoundTrip /\ ~call2.mprev /\ call2.mnext /\ NoOtherCandidate
    /\ call1.split /\ call1.chunk = call3.chunk

\* C6: three consecutive in-use chunks A, B, C whose outer neighbours are in
\* use or missing, released by three calls in a row in any order, end as one
\* free chunk at A of size a + b + c + 2 * (header_pad + footer_pad), the only
\* tree node in that region.
Follows(x, y) == x.chunk + header_pad + x.size + footer_pad = y.chunk

FullCoalescing ==
    (call1.op = "trfree" /\ call2.op = "trfree" /\ call3.op = "trfree") =>
        \A a, b, c \in {call1, call2, call3} :
            (Follows(a, b) /\ Follows(b, c) /\ ~a.mprev /\ ~c.mnext) =>
                LET total == a.size + b.size + c.size + 2 * (header_pad + footer_pad)
                    region == a.chunk .. (c.chunk + header_pad + c.size + footer_pad - 1)
                IN  /\ a.chunk \in DOMAIN hdr
                    /\ hdr[a.chunk] = [size |-> total, in_use |-> FALSE]
                    /\ FreeNodes \cap region = {a.chunk}
                    /\ DOMAIN hdr \cap region = {a.chunk}

\* A, then C, then B were released, and B met a free chunk on both sides.
FullCoalescingWitness ==
    /\ call1.op = "trfree" /\ call2.op = "trfree" /\ call3.op = "trfree"
    /\ Follows(call3, call1) /\ Follows(call1, call2)
    /\ ~call3.mprev /\ ~call2.mnext /\ call1.mprev /\ call1.mnext

\* The first node of size >= target on the path of right links from t.
RECURSIVE FirstOnRightPath(_, _, _)
FirstOnRightPath(t, target, fuel) ==
    IF fuel = 0 \/ ~HasNode(t) THEN NULL
    ELSE IF hdr[t].size >= target THEN t
    ELSE FirstOnRightPath(Right(t), target, fuel - 1)

\* A step that is a tralloc call.
TrallocStep == call1' # call1 /\ call1'.op = "tralloc"

\* C7: the chunk a tralloc search finds and removes is the first node of size
\* >= target on the path of right links from the sentinel.
FirstAcceptableFit ==
    [][ (TrallocStep /\ call1'.found # NULL) =>
            /\ call1'.found = FirstOnRightPath(fake_root, call1'.size, Fuel)
            /\ call1'.found \notin TreeNodes' ]_vars

\* The search returned a chunk although a smaller free chunk, still in the
\* tree, was large enough.
FirstAcceptableFitWitness ==
    /\ call1.op = "tralloc" /\ call1.found # NULL /\ ~call1.split
    /\ \E x \in FreeNodes : call1.size <= hdr[x].size /\ hdr[x].size < call1.fsize

\* What a tralloc step that found a chunk of size F does when it divides it,
\* and when it does not.
Overhead == header_pad + footer_pad + node_pad
DividedStep ==
    /\ call1'.chunk = call1'.found
    /\ hdr'[call1'.chunk].size = call1'.size
    /\ TreeNodes' = (TreeNodes \ {call1'.found})
                       \cup {call1'.found + header_pad + call1'.size + footer_pad}
WholeStep ==
    /\ call1'.chunk = call1'.found
    /\ hdr'[call1'.chunk].size = hdr[call1'.found].size
    /\ TreeNodes' = TreeNodes \ {call1'.found}

\* C8 as stated: the found chunk is divided if and only if its size exceeds
\* target + header_pad + footer_pad + node_pad.
SplitThreshold ==
    [][ (TrallocStep /\ call1'.found # NULL) =>
            IF hdr[call1'.found].size > call1'.size + Overhead
            THEN DividedStep ELSE WholeStep ]_vars

\* C8 amended: the found chunk is divided if and only if its size is at least
\* target + header_pad + footer_pad + node_pad.
SplitThresholdAmended ==
    [][ (TrallocStep /\ call1'.found # NULL) =>
            IF hdr[call1'.found].size >= call1'.size + Overhead
            THEN DividedStep ELSE WholeStep ]_vars

\* A found chunk of exactly target + overhead bytes was divided.
SplitThresholdWitness ==
    /\ call1.op = "tralloc" /\ call1.found # NULL
    /\ call1.fsize = call1.size + Overhead
    /\ hdr[call1.chunk].size = call1.size
    /\ Dividend1 \subseteq FreeNodes /\ Dividend1 # {}

\* C9: after a split the returned chunk starts where the found chunk started
\* and has the target size; the remainder starts right after its footer, has
\* size F - T - header_pad - footer_pad, is free, is in the tree, and ends
\* where the found chunk ended.
SplitResult ==
    (call1.op = "tralloc" /\ call1.split) =>
        LET d == call1.chunk + header_pad + call1.size + footer_pad
            dsize == call1.fsize - call1.size - header_pad - footer_pad
        IN  /\ call1.chunk = call1.found
            /\ hdr[call1.chunk] = [size |-> call1.size, in_use |-> TRUE]
            /\ d \in DOMAIN hdr
            /\ hdr[d] = [size |-> dsize, in_use |-> FALSE]
            /\ d \in FreeNodes
            /\ d + header_pad + hdr[d].size + footer_pad
                  = call1.found + header_pad + call1.fsize + footer_pad
            /\ \E i \in 1..(Len(Chain) - 1) : Chain[i] = call1.chunk /\ Chain[i + 1] = d

\* A split whose remainder is larger than the smallest chunk.
SplitResultWitness ==
    /\ call1.op = "tralloc" /\ call1.split
    /\ call1.fsize > call1.size + Overhead

\* C10: once created the sentinel stays where it is, the root of the tree,
\* with size 0, in_use false and no parent; no search finds it, no release
\* merges into it, and its payload is never handed out.
SentinelPermanence ==
    fake_root # NULL =>
        /\ fake_root = HeapStart
        /\ fake_root \in DOMAIN hdr
        /\ hdr[fake_root] = [size |-> 0, in_use |-> FALSE]
        /\ HasNode(fake_root) /\ Parent(fake_root) = NULL
        /\ \A t \in TreeNodes : Left(t) # fake_root /\ Right(t) # fake_root
        /\ header_to_node(fake_root, header_pad) \notin live
        /\ call1.chunk # fake_root /\ call1.found # fake_root
        /\ first_chunk # NULL => first_chunk = fake_root + header_pad + node_pad
        /\ \A h \in DOMAIN hdr \ {fake_root} : h >= fake_root + header_pad + node_pad

\* The first chunk, next to the sentinel, absorbed its successor while the
\* tree held another chunk, after a request that wrapped around to size 0.
SentinelPermanenceWitness ==
    /\ fake_root # NULL
    /\ call1.op = "trfree" /\ call1.found = first_chunk /\ call1.mnext
    /\ call2.op = "tralloc" /\ call2.n = SizeMod - 1
    /\ Cardinality(FreeNodes) >= 2

\* ------------------------------------------------------ sbrk out of memory
\* (void *)-1, the value sbrk returns when the break cannot move.
SbrkFailed == SizeMod - 1

\* sbrk(increment) when the break cannot move: the break stays.
sbrk_fails(b, increment) == [ret |-> SbrkFailed, brk |-> b]

\* Lines 96-104 when sbrk fails: the result is not tested, the sentinel's
\* fields are stored through it.
init_fake_root_oom(m, b, hp, np) ==
    [m |-> [m EXCEPT !.hdr = Store(m.hdr, sbrk_fails(b, hp + np).ret,
                                   [size |-> 0, in_use |-> FALSE]),
                     !.nd = Store(m.nd, header_to_node(sbrk_fails(b, hp + np).ret, hp),
                                  [parent |-> NULL, left |-> NULL, right |-> NULL])],
     fake_root |-> sbrk_fails(b, hp + np).ret,
     brk |-> sbrk_fails(b, hp + np).brk]

\* Lines 113-118 when sbrk fails: the result is not tested, it becomes the
\* found chunk, guard_addr is computed from it and the sizes are stored
\* through it.
tralloc_grow_oom(m, b, fc, size, hp, fp) ==
    LET found == sbrk_fails(b, (hp + size + fp) % SizeMod).ret
    IN  [m |-> set_size([m EXCEPT !.hdr = Store(m.hdr, found,
                                               [size |-> 0, in_use |-> FALSE])],
                        found, size, hp),
         found |-> found,
         brk |-> sbrk_fails(b, (hp + size + fp) % SizeMod).brk,
         first_chunk |-> IF fc = NULL THEN found ELSE fc,
         guard_addr |-> found + hp + size + fp]

\* The whole of tralloc(n) when the break cannot move, with every store
\* through (void *)-1 landing: k = 1 when already the sentinel's sbrk fails,
\* k = 2 when the sentinel exists or can still be created and the sbrk of the
\* new chunk fails.  searched is the result of the search.
tralloc_oom(n, k) ==
    LET hp == IF header_pad = 0 THEN ceil_size(SizeofHeader, SizeofIntptr) ELSE header_pad
        fp == IF footer_pad = 0 THEN ceil_size(SizeofFooter, SizeofIntptr) ELSE footer_pad
        np == IF node_pad = 0 THEN ceil_size(SizeofNode, SizeofIntptr) ELSE node_pad
        Return(r) ==
            [m |-> r.m, hp |-> hp, fp |-> fp, np |-> np, fake_root |-> r.fake_root,
             brk |-> r.brk, first_chunk |-> r.first_chunk, guard_addr |-> r.guard_addr,
             ret |-> header_to_node(r.chunk, hp),
             call |-> [op |-> "tralloc_oom", n |-> n, size |-> target_size(n, np),
                       chunk |-> r.chunk, found |-> r.found, fsize |-> r.fsize,
                       split |-> r.split, mprev |-> FALSE, mnext |-> FALSE,
                       guard |-> r.guard_addr,
                       ea0 |-> equals_alternator, spa0 |-> succ_pred_alternator]]
        Grown(i, g) ==
            [m |-> g.m, fake_root |-> i.fake_root, brk |-> g.brk,
             first_chunk |-> g.first_chunk, guard_addr |-> g.guard_addr,
             chunk |-> g.found, found |-> NULL, fsize |-> 0, split |-> FALSE]
        Searched(i, rs) ==
            [searched |-> rs.ret,
             r |-> Return(tralloc_mark(
                       Grown(i, tralloc_grow_oom(rs.m, i.brk, first_chunk,
                                                 target_size(n, np), hp, fp)),
                       hp))]
        Search(i) ==
            Searched(i, remove_chunk_by_size(i.m, hp, i.fake_root, target_size(n, np)))
        Mem == [hdr |-> hdr, ftr |-> ftr, nd |-> nd,
                ea |-> equals_alternator, spa |-> succ_pred_alternator]
    IN  Search(IF fake_root # NULL THEN [m |-> Mem, fake_root |-> fake_root, brk |-> brk]
               ELSE IF k = 1 THEN init_fake_root_oom(Mem, brk, hp, np)
               ELSE init_fake_root(Mem, brk, hp, np))

\* No sbrk has failed so far.
Running == call1.op \notin {"crash", "tralloc_oom"}

\* The call tralloc(n) needs the break to move and the break cannot move: for
\* the sentinel in the very first call, or for a chunk that does not fit below
\* the limit of the data segment.  A store through (void *)-1 is undefined: it
\* stops the process (access violation) or it lands.
TrallocOOM ==
    \E n \in Requests, k \in {1, 2}, lands \in BOOLEAN :
        /\ Running
        /\ IF k = 1 THEN fake_root = NULL
           ELSE HeapBytes(tralloc(n).brk, tralloc(n).first_chunk) > MaxHeap
        /\ tralloc_oom(n, k).searched = NULL
        /\ IF lands THEN TrallocDone(tralloc_oom(n, k).r)
           ELSE /\ call1' = [NoCall EXCEPT !.op = "crash", !.n = n]
                /\ call2' = Brief(call1)
                /\ call3' = call2
                /\ UNCHANGED << fake_root, first_chunk, guard_addr, header_pad,
                                footer_pad, node_pad, equals_alternator,
                                succ_pred_alternator, brk, hdr, ftr, nd, live >>

NextOOM == (Running /\ Tralloc) \/ (Running /\ Trfree) \/ TrallocOOM

\* The allocator on a machine whose data segment is limited to MaxHeap bytes
\* of chunks.
SpecOOM == Init /\ [][NextOOM]_vars

\* C11: when sbrk fails, tralloc returns a distinguishable failure value and
\* does not use (void *)-1 as a chunk address: nothing is stored through it,
\* it is not handed out, and first_chunk, guard_addr and the free tree stay as
\* they were.
OOMReported ==
    [][call1'.op \in {"crash", "tralloc_oom"} =>
          /\ call1'.op = "tralloc_oom"
          /\ header_to_node(call1'.chunk, header_pad') \in {NULL, SbrkFailed}
          /\ SbrkFailed \notin DOMAIN hdr'
          /\ live' = live
          /\ UNCHANGED << first_chunk, guard_addr >>
          /\ FreeNodes' = FreeNodes]_vars

RECURSIVE traudit_walk(_, _, _)
traudit_walk(m, cur, fuel) ==
    IF fuel = 0 \/ cur \notin DOMAIN m.hdr THEN [chunks |-> << >>, ended |-> FALSE]
    ELSE LET Printed ==
                 [chunk |-> cur, size |-> m.hdr[cur].size, in_use |-> m.hdr[cur].in_use,
                  node |-> IF m.hdr[cur].in_use THEN << >>
                           ELSE << m.nd[header_to_node(cur, header_pad)] >>]
             Then(w) == [chunks |-> << Printed >> \o w.chunks, ended |-> w.ended]
         IN  IF header_to_footer(m, cur, header_pad) + footer_pad = guard_addr
             THEN [chunks |-> << Printed >>, ended |-> TRUE]
             ELSE Then(traudit_walk(m, header_to_footer(m, cur, header_pad) + footer_pad,
                                    fuel - 1))

\* Lines 294-318: the tree printed in pre-order, NULL for an empty subtree.
RECURSIVE fprint_tree(_, _, _)
fprint_tree(m, tree, depth) ==
    IF tree = NULL THEN << [depth |-> depth, chunk |-> NULL] >>
    ELSE << [depth |-> depth, chunk |-> tree, size |-> m.hdr[tree].size,
             in_use |-> m.hdr[tree].in_use,
             parent |-> m.nd[header_to_node(tree, header_pad)].parent] >>
         \o fprint_tree(m, m.nd[header_to_node(tree, header_pad)].left, depth + 1)
         \o fprint_tree(m, m.nd[header_to_node(tree, header_pad)].right, depth + 1)

\* traudit switching the tie flag.
traudit_flips ==
    LET m == [hdr |-> hdr, ftr |-> ftr, nd |-> nd,
              ea |-> ~equals_alternator, spa |-> succ_pred_alternator]
        Return(w, t) ==
            [m |-> m, chunks |-> w.chunks, tree |-> t, ended |-> w.ended,
             call |-> [NoCall EXCEPT !.op = "traudit", !.n = Len(w.chunks),
                                     !.fsize = Len(t), !.guard = guard_addr]]
    IN  IF first_chunk = NULL \/ guard_addr = NULL
        THEN Return([chunks |-> << >>, ended |-> TRUE], << >>)
        ELSE Return(traudit_walk(m, first_chunk, Cardinality(DOMAIN hdr) + 1),
                    fprint_tree(m, fake_root, 0))

\* The whole of traudit(f), lines 260-292: what it prints (the chunks of the
\* chain, then the tree), whether the walk ended, and the memory it leaves.
\* No statement of traudit or fprint_tree stores anything.
traudit ==
    LET m == [hdr |-> hdr, ftr |-> ftr, nd |-> nd,
              ea |-> equals_alternator, spa |-> succ_pred_alternator]
        Return(w, t) ==
            [m |-> m, chunks |-> w.chunks, tree |-> t, ended |-> w.ended,
             call |-> [NoCall EXCEPT !.op = "traudit", !.n = Len(w.chunks),
                                     !.fsize = Len(t), !.guard = guard_addr]]
    IN  IF first_chunk = NULL \/ guard_addr = NULL
        THEN Return([chunks |-> << >>, ended |-> TRUE], << >>)
        ELSE Return(traudit_walk(m, first_chunk, Cardinality(DOMAIN hdr) + 1),
                    fprint_tree(m, fake_root, 0))

\* The state after a traudit call that returned r; a walk that does not end
\* does not return.
TrauditDone(r) ==
    /\ r.ended
    /\ equals_alternator' = r.m.ea
    /\ succ_pred_alternator' = r.m.spa
    /\ hdr' = r.m.hdr
    /\ ftr' = r.m.ftr
    /\ nd' = r.m.nd
    /\ call1' = r.call
    /\ call2' = Brief(call1)
    /\ call3' = call2
    /\ UNCHANGED << fake_root, first_chunk, guard_addr, header_pad, footer_pad,
                    node_pad, brk, live >>

Traudit == TrauditDone(traudit)

NextAudit == Tralloc \/ Trfree \/ Traudit

\* The allocator with audits between the calls.
SpecAudit == Init /\ [][NextAudit]_vars

\* C13: traudit is read-only: it leaves fake_root, first_chunk, guard_addr,
\* the three paddings, both alternators and every header, footer and node
\* field as they were.
AuditReadOnly ==
    [][call1'.op = "traudit" =>
          UNCHANGED << fake_root, first_chunk, guard_addr, header_pad, footer_pad,
                       node_pad, equals_alternator, succ_pred_alternator,
                       hdr, ftr, nd, brk, live >>]_vars

\* An audit that printed a chain of three chunks and a tree of two free chunks
\* under the sentinel, right after a release.
AuditReadOnlyWitness ==
    /\ call1.op = "traudit" /\ call1.n >= 3
    /\ call2.op = "trfree"
    /\ Cardinality(FreeNodes) >= 2
    /\ call1.fsize = 2 * Cardinality(TreeNodes) + 1

\* C14: every chunk of the chain has a size that is a multiple of the word
\* size and at least node_pad.
SizeGranularity ==
    \A h \in ChainSet :
        /\ hdr[h].size % SizeofIntptr = 0
        /\ hdr[h].size >= node_pad

\* A chunk made by coalescing was divided, leaving a free chunk of the
\* smallest size.
SizeGranularityWitness ==
    /\ call1.op = "tralloc" /\ call1.split /\ call1.fsize = call1.size + Overhead
    /\ call2.op = "trfree" /\ (call2.mprev \/ call2.mnext)
    /\ \E h \in ChainSet : hdr[h].size = node_pad /\ ~hdr[h].in_use

\* The nodes above x in the tree: the nodes add_chunk visited when it put x,
\* a leaf, into the tree.
RECURSIVE Ancestors(_, _)
Ancestors(x, fuel) ==
    IF fuel = 0 \/ ~HasNode(x) \/ Parent(x) = NULL THEN {}
    ELSE {Parent(x)} \cup Ancestors(Parent(x), fuel - 1)

\* The chunk the last call put into the tree: the released (and coalesced)
\* chunk of a trfree, the dividend of a tralloc that split.
Inserted ==
    IF call1.op = "trfree" THEN call1.found
    ELSE IF call1.op = "tralloc" /\ call1.split
    THEN call1.chunk + header_pad + call1.size + footer_pad
    ELSE NULL

\* The nodes of its own size the inserted chunk met on its way down.
TiesMet ==
    IF ~HasNode(Inserted) THEN {}
    ELSE {a \in Ancestors(Inserted, Fuel) \ {fake_root} :
             hdr[a].size = hdr[Inserted].size}

\* C15: every insertion that meets a size tie flips the tie flag, net over
\* the whole insertion.
TieAlternation == TiesMet # {} => equals_alternator # call1.ea0

\* The memory record of the current state.
CurMem == [hdr |-> hdr, ftr |-> ftr, nd |-> nd,
           ea |-> equals_alternator, spa |-> succ_pred_alternator]

\* The nodes the call recorded in c took out of the tree with remove_chunk, in
\* the order of the calls: the chunk found by a tralloc; for a trfree the free
\* predecessor, then the free successor.
RemovedBy(c, hp, fp) ==
    IF c.op = "tralloc" THEN (IF c.found # NULL THEN << c.found >> ELSE << >>)
    ELSE IF c.op = "trfree"
    THEN (IF c.mprev THEN << c.found >> ELSE << >>)
         \o (IF c.mnext THEN << c.chunk + hp + c.size + fp >> ELSE << >>)
    ELSE << >>

TwoChildren(m, hp, x) ==
    m.nd[header_to_node(x, hp)].left # NULL /\ m.nd[header_to_node(x, hp)].right # NULL

\* The node in the slot that held x in memory m, read in memory m2.
InPlaceOf(m, m2, hp, x) ==
    LET parent_node == header_to_node(m.nd[header_to_node(x, hp)].parent, hp)
    IN  IF m.nd[parent_node].left = x THEN m2.nd[parent_node].left
        ELSE m2.nd[parent_node].right

\* remove_chunk(x) in memory m, leaving m2, follows the alternation: a node
\* with two children is replaced by its predecessor when the flag was false
\* and by its successor when it was true, and the flag is flipped once; any
\* other node leaves the flag alone.
RemovalAlternates(m, m2, hp, x) ==
    IF TwoChildren(m, hp, x)
    THEN /\ m2.spa = ~m.spa
         /\ InPlaceOf(m, m2, hp, x) =
               IF ~m.spa THEN find_largest(m, hp, m.nd[header_to_node(x, hp)].left)
               ELSE find_smallest(m, hp, m.nd[header_to_node(x, hp)].right)
    ELSE m2.spa = m.spa

\* The removals of a call one after the other from memory m: whether each
\* followed the alternation, and the flag they leave.
RECURSIVE Removals(_, _, _)
Removals(m, hp, xs) ==
    IF xs = << >> THEN [ok |-> TRUE, spa |-> m.spa]
    ELSE LET After(m2) ==
                 [ok |-> RemovalAlternates(m, m2, hp, Head(xs))
                         /\ Removals(m2, hp, Tail(xs)).ok,
                  spa |-> Removals(m2, hp, Tail(xs)).spa]
         IN  After(remove_chunk(m, hp, Head(xs)))

\* C16: the removals of nodes with two children alternate strictly between
\* predecessor and successor, beginning with the predecessor; a removal of a
\* node with at most one child, the nested removal of the replacement
\* included, does not flip the flag.
ReplacementAlternation ==
    [][call1'.op \in {"tralloc", "trfree"} =>
          /\ Removals(CurMem, header_pad, RemovedBy(call1', header_pad, footer_pad)).ok
          /\ succ_pred_alternator' =
                Removals(CurMem, header_pad,
                         RemovedBy(call1', header_pad, footer_pad)).spa]_vars

\* A release absorbed both neighbours; one of them had two children in the
\* tree and was replaced by its successor, the flag going from true to false.
ReplacementAlternationWitness ==
    /\ call1.op = "trfree" /\ call1.mprev /\ call1.mnext
    /\ call1.spa0 /\ ~succ_pred_alternator
    /\ Cardinality(FreeNodes) >= 2

\* The child fields of the tree nodes that hold x.
PointersTo(x) ==
    {e \in TreeNodes \X {"left", "right"} :
        x = (IF e[2] = "left" THEN Left(e[1]) ELSE Right(e[1]))}

\* C17: the nodes reachable from the sentinel, the sentinel excluded, are
\* exactly the free chunks of the chain, each held by exactly one child field
\* (no chunk twice, no cycle); no child field leads to a chunk that is in use,
\* was absorbed or was used up by a split.
IndexEqualsFreeSet ==
    /\ FreeNodes = {h \in ChainSet : ~hdr[h].in_use}
    /\ \A t \in TreeNodes :
          /\ Left(t) # NULL => HasNode(Left(t))
          /\ Right(t) # NULL => HasNode(Right(t))
    /\ \A x \in FreeNodes : Cardinality(PointersTo(x)) = 1
    /\ fake_root # NULL => PointersTo(fake_root) = {}

\* After a release that absorbed both neighbours and a split, the tree holds
\* two free chunks and two chunks are in use.
IndexEqualsFreeSetWitness ==
    /\ call1.op = "tralloc" /\ call1.split
    /\ call2.op = "trfree" /\ call2.mprev /\ call2.mnext
    /\ Cardinality(FreeNodes) >= 2
    /\ Cardinality(live) >= 2

\* The bytes of the chunk whose payload pointer is p, tags included, in the
\* memory hm with header padding hp and footer padding fp.
ChunkBytes(hm, p, hp, fp) ==
    node_to_header(p, hp) .. (p + hm[node_to_header(p, hp)].size + fp - 1)

\* C18: tralloc never returns a pointer that is handed out; the chunks in use
\* are headers marked in use whose byte ranges are pairwise disjoint; and no
\* call changes the address, the size or the in_use mark of a chunk that is
\* in use before and after it.
NoDoubleHandOut ==
    [][/\ TrallocStep =>
             /\ header_to_node(call1'.chunk, header_pad') \notin live
             /\ live' = live \cup {header_to_node(call1'.chunk, header_pad')}
       /\ call1'.op = "trfree" => live' = live \ {call1'.n}
       /\ \A p \in live' :
             /\ node_to_header(p, header_pad') \in DOMAIN hdr'
             /\ hdr'[node_to_header(p, header_pad')].in_use
       /\ \A p \in live' : \A q \in live' \ {p} :
             ChunkBytes(hdr', p, header_pad', footer_pad')
                 \cap ChunkBytes(hdr', q, header_pad', footer_pad') = {}
       /\ \A p \in live \cap live' :
             hdr'[node_to_header(p, header_pad')] = hdr[node_to_header(p, header_pad')]
      ]_vars

\* After a release that coalesced, tralloc divided a free chunk that lies
\* right behind a chunk in use and handed out its front part.
NoDoubleHandOutWitness ==
    /\ call1.op = "tralloc" /\ call1.split
    /\ call2.op = "trfree" /\ (call2.mprev \/ call2.mnext)
    /\ call1.chunk # first_chunk
    /\ \E i \in 2..(Len(Chain) - 1) :
          /\ Chain[i] = call1.chunk
          /\ hdr[Chain[i - 1]].in_use

\* The free chunks of the chain.
FreeChunks == {h \in ChainSet : ~hdr[h].in_use}

\* C19: tralloc extends the heap for target size T only when no free chunk
\* has size >= T; whenever some free chunk has size >= T the search finds a
\* free chunk of size >= T and guard_addr stays where it is.
SearchCompleteness ==
    [][TrallocStep =>
          /\ call1'.found = NULL <=> \A h \in FreeChunks : hdr[h].size < call1'.size
          /\ call1'.found # NULL =>
                /\ call1'.found \in FreeChunks
                /\ hdr[call1'.found].size >= call1'.size
                /\ UNCHANGED << guard_addr, brk >>]_vars

\* A small chunk was released into the empty tree, then a chunk of 64 bytes:
\* the search for 64 bytes passed the small chunk at the root and found the
\* other one at its right.
SearchCompletenessWitness ==
    /\ call1.op = "tralloc" /\ call1.size = 64 /\ call1.found # NULL
    /\ call2.op = "trfree" /\ ~call2.mprev /\ ~call2.mnext
    /\ call1.found = call2.chunk
    /\ call3.op = "trfree" /\ ~call3.mprev /\ ~call3.mnext
    /\ FreeNodes = {call3.chunk}
    /\ hdr[call3.chunk].size < 64

\* C20: the chunks tile the heap: stepping from first_chunk by header_pad +
\* size + footer_pad stays on headers the allocator wrote, never goes past
\* guard_addr, visits every chunk header there is and lands exactly on
\* guard_addr; so the walk of traudit ends, having printed exactly these
\* chunks.
ChainTiling ==
    /\ first_chunk = NULL <=> guard_addr = NULL
    /\ first_chunk # NULL =>
          /\ Len(Chain) >= 1
          /\ \A i \in 1..Len(Chain) :
                LET next == Chain[i] + header_pad + hdr[Chain[i]].size + footer_pad
                IN  IF i = Len(Chain) THEN next = guard_addr
                    ELSE next < guard_addr /\ next = Chain[i + 1]
          /\ ChainSet = DOMAIN hdr \ {fake_root}
    /\ LET Walked(a) ==
               /\ a.ended
               /\ [i \in 1..Len(a.chunks) |-> a.chunks[i].chunk] = Chain
       IN  Walked(traudit)
    /\ call1.op = "traudit" => call1.n = Len(Chain)

\* An audit walked a chain of three chunks, the middle one made by a release
\* that absorbed both neighbours.
ChainTilingWitness ==
    /\ call1.op = "traudit" /\ call1.n = 3 /\ Len(Chain) = 3
    /\ call2.op = "trfree" /\ call2.mprev /\ call2.mnext
    /\ ~hdr[Chain[2]].in_use /\ hdr[Chain[2]].size > 64

====
